---- MODULE Spec2Model ----
(***************************************************************************)
(* wdled: control the LED mode of WD My Passport disks (src/wdled.c).     *)
(*                                                                         *)
(* One run of main() is modelled as a state machine.  The steps are cut at *)
(* the calls into the SCSI library: argument processing, open, inquiry     *)
(* with the supported-device check, MODE SENSE with the page validation    *)
(* and the LED report, and MODE SELECT.  Strings are TLA+ strings, bytes   *)
(* are naturals below 256, a struct is the sequence of its bytes.          *)
(***************************************************************************)
EXTENDS Integers, Sequences, FiniteSets, TLC

(***************************************************************************)
(* Program constants                                                       *)
(***************************************************************************)
PAGE_CODE == 33
PAGE_MAGIC == 48
PS_BIT == 128
\* sizeof(struct mode_parameter_header): 2 + 1 + 1 + 1 + 1 + 2
HeaderSize == 8
\* sizeof(current.wd21): ten uint8_t fields
Wd21Size == 10
\* the bytes[] member of the payload union
UnionSize == 32
\* the size of the union alone
PageSize_UnionOnly == UnionSize

\* sizeof(struct page): code, len and the union
PageSize == 2 + UnionSize
\* sizeof(packet): header followed by the page, no padding
PacketSize == HeaderSize + PageSize
\* width of "int new"
IntBits == 32
\* widths of "long" (the result of strtol) on the builds of the program:
\* ILP32 and LP64
LongWidths == {32, 64}

\* offsets of the fields in struct page (1-based positions in the sequence)
OffCode == 1
OffLen == 2
OffMagic == 3
OffUnknown1 == 6
OffLed == 9

wd_products ==
    << "My Passport 259D", "My Passport 259E", "My Passport 259F",
       "My Passport 259A", "My Passport 25E1", "My Passport 25E2" >>

\* the table ends with a { NULL, NULL } entry: index Len(supported) + 1
supported == << [vendor |-> "WD      ", products |-> wd_products] >>

(***************************************************************************)
(* Bytes and strings                                                       *)
(***************************************************************************)
Byte == 0 .. 255

RECURSIVE BitAnd(_, _)
\* a & b on naturals
BitAnd(a, b) ==
    IF a = 0 \/ b = 0 THEN 0
    ELSE (a % 2) * (b % 2) + 2 * BitAnd(a \div 2, b \div 2)

CharAt(s, i) == SubSeq(s, i, i)

RECURSIVE IndexIn(_, _, _)
\* position of character c in s at or after i, 0 when absent
IndexIn(c, s, i) ==
    IF i > Len(s) THEN 0
    ELSE IF CharAt(s, i) = c THEN i
    ELSE IndexIn(c, s, i + 1)

UpperCase == "ABCDEFGHIJKLMNOPQRSTUVWXYZ"
LowerCase == "abcdefghijklmnopqrstuvwxyz"
DigitChars == "0123456789abcdefghijklmnopqrstuvwxyz"

\* tolower() in the C locale
ToLower(c) ==
    LET i == IndexIn(c, UpperCase, 1)
    IN  IF i = 0 THEN c ELSE CharAt(LowerCase, i)

RECURSIVE LowerStr(_)
LowerStr(s) == IF s = "" THEN "" ELSE ToLower(Head(s)) \o LowerStr(Tail(s))

\* !strcmp(a, b)
StrEq(a, b) == a = b

\* !strncmp(s, p, strlen(p)): the first strlen(p) characters of s are p
HasPrefix(s, p) == Len(s) >= Len(p) /\ SubSeq(s, 1, Len(p)) = p

\* !strncasecmp(s, p, strlen(p))
HasPrefixNoCase(s, p) ==
    Len(s) >= Len(p) /\ LowerStr(SubSeq(s, 1, Len(p))) = LowerStr(p)

\* s + n
Skip(s, n) == SubSeq(s, n + 1, Len(s))

\* isspace() in the C locale (\v has no TLA+ escape)
IsSpace(c) == c \in {" ", "\t", "\n", "\f", "\r"}

\* value of c as a digit, 36 when it is none
DigitValue(c) ==
    LET i == IndexIn(ToLower(c), DigitChars, 1)
    IN  IF c = "" \/ i = 0 THEN 36 ELSE i - 1

(***************************************************************************)
(* strtol(arg, &endptr, 0), then the conversion of its long result to int  *)
(*                                                                         *)
(* The magnitude is kept in 16-bit limbs, least significant first, so that *)
(* a 64-bit long is computed exactly.                                      *)
(***************************************************************************)
ZeroLimbs(bits) == [i \in 1 .. (bits \div 16) |-> 0]

RECURSIVE MulAddFrom(_, _, _, _)
\* limbs * base + carry, from limb i on; the result has one limb more: the
\* carry out of the top limb
MulAddFrom(limbs, base, carry, i) ==
    IF i > Len(limbs) THEN << carry >>
    ELSE LET t == limbs[i] * base + carry
         IN  << t % 65536 >> \o MulAddFrom(limbs, base, t \div 65536, i + 1)

RECURSIVE Accumulate(_, _, _, _, _)
\* the digits of s from position i on, in the given base: the magnitude as
\* limbs, whether it left the limbs (ovf), and the position after the last
\* digit
Accumulate(s, i, base, limbs, ovf) ==
    IF i > Len(s) \/ DigitValue(CharAt(s, i)) >= base
    THEN [limbs |-> limbs, ovf |-> ovf, end |-> i]
    ELSE LET r == MulAddFrom(limbs, base, DigitValue(CharAt(s, i)), 1)
             n == Len(limbs)
         IN  Accumulate(s, i + 1, base, SubSeq(r, 1, n), ovf \/ r[n + 1] # 0)

RECURSIVE SkipSpaces(_, _)
SkipSpaces(s, i) ==
    IF i <= Len(s) /\ IsSpace(CharAt(s, i)) THEN SkipSpaces(s, i + 1) ELSE i

\* two's complement reading of the low 32 bits l0 + 65536 * l1
Signed32(l0, l1) ==
    IF l1 >= 32768 THEN (l1 - 65536) * 65536 + l0 ELSE l1 * 65536 + l0

\* -x in 32-bit two's complement
Neg32(x) == IF x = (-2147483647) - 1 THEN x ELSE -x

\* (int) of the long that strtol returns for sign and magnitude, for a long
\* of the given width; magnitudes the long cannot hold give LONG_MAX/LONG_MIN
LongToInt(neg, limbs, ovf, bits) ==
    LET n     == Len(limbs)
        big   == ovf \/ limbs[n] >= 32768
        exact == ~ovf /\ limbs[n] = 32768
                 /\ \A k \in 1 .. (n - 1) : limbs[k] = 0
        low   == Signed32(limbs[1], limbs[2])
    IN  IF ~big THEN (IF neg THEN Neg32(low) ELSE low)
        ELSE IF neg /\ exact THEN Neg32(low)
        ELSE IF bits = IntBits
             THEN (IF neg THEN (-2147483647) - 1 ELSE 2147483647)
             ELSE (IF neg THEN 0 ELSE -1)

\* new = strtol(arg, &endptr, 0): val is the int stored in new, end the
\* number of characters before endptr
Strtol(s, bits) ==
    LET p     == SkipSpaces(s, 1)
        sgn   == IF p <= Len(s) /\ CharAt(s, p) \in {"-", "+"} THEN 1 ELSE 0
        neg   == sgn = 1 /\ CharAt(s, p) = "-"
        q     == p + sgn
        isHex == /\ q + 2 <= Len(s)
                 /\ CharAt(s, q) = "0"
                 /\ ToLower(CharAt(s, q + 1)) = "x"
                 /\ DigitValue(CharAt(s, q + 2)) < 16
        base  == IF isHex THEN 16
                 ELSE IF q <= Len(s) /\ CharAt(s, q) = "0" THEN 8
                 ELSE 10
        from  == IF isHex THEN q + 2 ELSE q
        acc   == Accumulate(s, from, base, ZeroLimbs(bits), FALSE)
    IN  IF acc.end = from
        THEN [val |-> 0, end |-> 0]
        ELSE [val |-> LongToInt(neg, acc.limbs, acc.ovf, bits),
              end |-> acc.end - 1]

(***************************************************************************)
(* Argument processing: lines 101-158                                      *)
(***************************************************************************)
HelpFlags == {"--help", "-help", "-h"}

\* the condition of line 101, for the arguments after argv[0]
WantsHelp(args) ==
    LET argc == Len(args) + 1
    IN  argc < 2 \/ argc > 3 \/ args[1] \in HelpFlags

\* lines 133-138: arg and force after the FORCESET: test
StripForce(arg) ==
    IF HasPrefix(arg, "FORCESET:")
    THEN [arg |-> Skip(arg, Len("FORCESET:")), force |-> TRUE]
    ELSE [arg |-> arg, force |-> FALSE]

\* StripSave that skips the prefix and leaves save false
StripSave_FlagUnset(arg) ==
    IF HasPrefixNoCase(arg, "save:")
    THEN [arg |-> Skip(arg, Len("save:")), save |-> FALSE]
    ELSE [arg |-> arg, save |-> FALSE]

\* lines 139-144: arg and save after the save: test
StripSave(arg) ==
    IF HasPrefixNoCase(arg, "save:")
    THEN [arg |-> Skip(arg, Len("save:")), save |-> TRUE]
    ELSE [arg |-> arg, save |-> FALSE]

\* ParseValue with the upper limit of line 152 off by one
ParseValue_UpperLimit(arg, bits) ==
    IF StrEq(arg, "off") THEN [new |-> 0, ok |-> TRUE]
    ELSE IF StrEq(arg, "on") THEN [new |-> 255, ok |-> TRUE]
    ELSE LET r == Strtol(arg, bits)
         IN  [new |-> r.val,
              ok  |-> ~(r.end # Len(arg) \/ r.val < 0 \/ r.val >= 255)]

\* lines 145-156: the value of "new" for arg and whether it is accepted
ParseValue(arg, bits) ==
    IF StrEq(arg, "off") THEN [new |-> 0, ok |-> TRUE]
    ELSE IF StrEq(arg, "on") THEN [new |-> 255, ok |-> TRUE]
    ELSE LET r == Strtol(arg, bits)
         IN  [new |-> r.val,
              ok  |-> ~(r.end # Len(arg) \/ r.val < 0 \/ r.val > 255)]

\* ProcessArgument with "new" starting at 0 instead of -1
ProcessArgument_NewZero(args, bits) ==
    IF ~(Len(args) + 1 > 2)
    THEN [force |-> FALSE, save |-> FALSE, new |-> 0, arg |-> "", ok |-> TRUE]
    ELSE IF StrEq(args[2], "FORCEGET")
    THEN [force |-> TRUE, save |-> FALSE, new |-> 0, arg |-> args[2],
          ok |-> TRUE]
    ELSE LET f == StripForce(args[2])
             s == StripSave(f.arg)
             v == ParseValue(s.arg, bits)
         IN  [force |-> f.force, save |-> s.save, new |-> v.new,
              arg |-> s.arg, ok |-> v.ok]

\* lines 124-158: force, save, new, the text left in arg, and whether the
\* run goes on, for argv[2] when present
ProcessArgument(args, bits) ==
    IF ~(Len(args) + 1 > 2)
    THEN [force |-> FALSE, save |-> FALSE, new |-> -1, arg |-> "", ok |-> TRUE]
    ELSE IF StrEq(args[2], "FORCEGET")
    THEN [force |-> TRUE, save |-> FALSE, new |-> -1, arg |-> args[2],
          ok |-> TRUE]
    ELSE LET f == StripForce(args[2])
             s == StripSave(f.arg)
             v == ParseValue(s.arg, bits)
         IN  [force |-> f.force, save |-> s.save, new |-> v.new,
              arg |-> s.arg, ok |-> v.ok]

(***************************************************************************)
(* The supported-device search: lines 183-210                              *)
(***************************************************************************)
RECURSIVE FindProduct(_, _, _)
\* the inner loop: the pid it stops at, Len(products) + 1 being the NULL
FindProduct(products, product, pid) ==
    IF pid > Len(products) THEN pid
    ELSE IF StrEq(products[pid], product) THEN pid
    ELSE FindProduct(products, product, pid + 1)

RECURSIVE FindVendor(_, _)
\* the outer loop: the vid it stops at, Len(supported) + 1 being the NULL
FindVendor(vendor, vid) ==
    IF vid > Len(supported) THEN vid
    ELSE IF StrEq(supported[vid].vendor, vendor) THEN vid
    ELSE FindVendor(vendor, vid + 1)

\* CheckSupported without the product test of line 202
CheckSupported_VendorOnly(inq) ==
    LET vid == FindVendor(inq.vendor, 1)
    IN  IF vid > Len(supported) THEN "vendor" ELSE "ok"

\* lines 194-210: "vendor" or "product" when the device is not in the
\* table, "ok" when it is
CheckSupported(inq) ==
    LET vid == FindVendor(inq.vendor, 1)
    IN  IF vid > Len(supported) THEN "vendor"
        ELSE IF FindProduct(supported[vid].products, inq.product, 1)
                  > Len(supported[vid].products)
        THEN "product"
        ELSE "ok"

(***************************************************************************)
(* struct page, the validation of the four pages (lines 222-240) and the   *)
(* MODE SELECT parameter list (lines 246-256)                              *)
(***************************************************************************)
ZeroPage == [i \in 1 .. PageSize |-> 0]

\* a page as the device returns it: z fills the bytes the layout calls
\* zeros, pad the bytes of the union after the wd21 fields
MkPage(code, len, magic, unknown1, led, z, pad) ==
    [i \in 1 .. PageSize |->
        IF i = OffCode THEN code
        ELSE IF i = OffLen THEN len
        ELSE IF i = OffMagic THEN magic
        ELSE IF i = OffUnknown1 THEN unknown1
        ELSE IF i = OffLed THEN led
        ELSE IF i <= 2 + Wd21Size THEN z
        ELSE pad]

\* the text of the diagnostics
ErrPageId == "ERROR: Unexpected mode page id"
ErrPageLen == "ERROR: Unexpected mode page length"
ErrMagic == "ERROR: Unexpected mode page magic"
ErrNotChangeable == "ERROR: LED bits don't appear changeable"

\* Validate without the rule of line 237
Validate_NoLedRule(cur, chg, org, sav) ==
    LET code     == PAGE_CODE + PS_BIT
        wd21_len == Wd21Size
    IN  IF cur[OffCode] # code \/ chg[OffCode] # code
           \/ org[OffCode] # code \/ sav[OffCode] # code
        THEN [text |-> ErrPageId, byte |-> cur[OffCode]]
        ELSE IF cur[OffLen] # wd21_len \/ chg[OffLen] # wd21_len
                \/ org[OffLen] # wd21_len \/ sav[OffLen] # wd21_len
        THEN [text |-> ErrPageLen, byte |-> cur[OffLen]]
        ELSE IF cur[OffMagic] # PAGE_MAGIC
        THEN [text |-> ErrMagic, byte |-> cur[OffMagic]]
        ELSE [text |-> "", byte |-> 0]

\* Validate with the page-id rule applied to the current page alone
Validate_CurrentCodeOnly(cur, chg, org, sav) ==
    LET code     == PAGE_CODE + PS_BIT
        wd21_len == Wd21Size
    IN  IF cur[OffCode] # code
        THEN [text |-> ErrPageId, byte |-> cur[OffCode]]
        ELSE IF cur[OffLen] # wd21_len \/ chg[OffLen] # wd21_len
                \/ org[OffLen] # wd21_len \/ sav[OffLen] # wd21_len
        THEN [text |-> ErrPageLen, byte |-> cur[OffLen]]
        ELSE IF cur[OffMagic] # PAGE_MAGIC
        THEN [text |-> ErrMagic, byte |-> cur[OffMagic]]
        ELSE IF chg[OffLed] # 255
        THEN [text |-> ErrNotChangeable, byte |-> chg[OffLed]]
        ELSE [text |-> "", byte |-> 0]

\* Validate with the page-length rule applied to the current page alone
Validate_CurrentLenOnly(cur, chg, org, sav) ==
    LET code     == PAGE_CODE + PS_BIT
        wd21_len == Wd21Size
    IN  IF cur[OffCode] # code \/ chg[OffCode] # code
           \/ org[OffCode] # code \/ sav[OffCode] # code
        THEN [text |-> ErrPageId, byte |-> cur[OffCode]]
        ELSE IF cur[OffLen] # wd21_len
        THEN [text |-> ErrPageLen, byte |-> cur[OffLen]]
        ELSE IF cur[OffMagic] # PAGE_MAGIC
        THEN [text |-> ErrMagic, byte |-> cur[OffMagic]]
        ELSE IF chg[OffLed] # 255
        THEN [text |-> ErrNotChangeable, byte |-> chg[OffLed]]
        ELSE [text |-> "", byte |-> 0]

\* Validate without the rule of line 233
Validate_NoMagicRule(cur, chg, org, sav) ==
    LET code     == PAGE_CODE + PS_BIT
        wd21_len == Wd21Size
    IN  IF cur[OffCode] # code \/ chg[OffCode] # code
           \/ org[OffCode] # code \/ sav[OffCode] # code
        THEN [text |-> ErrPageId, byte |-> cur[OffCode]]
        ELSE IF cur[OffLen] # wd21_len \/ chg[OffLen] # wd21_len
                \/ org[OffLen] # wd21_len \/ sav[OffLen] # wd21_len
        THEN [text |-> ErrPageLen, byte |-> cur[OffLen]]
        ELSE IF chg[OffLed] # 255
        THEN [text |-> ErrNotChangeable, byte |-> chg[OffLed]]
        ELSE [text |-> "", byte |-> 0]

\* Validate with the rule of line 237 tried before the rule of line 233
Validate_LedRuleFirst(cur, chg, org, sav) ==
    LET code     == PAGE_CODE + PS_BIT
        wd21_len == Wd21Size
    IN  IF cur[OffCode] # code \/ chg[OffCode] # code
           \/ org[OffCode] # code \/ sav[OffCode] # code
        THEN [text |-> ErrPageId, byte |-> cur[OffCode]]
        ELSE IF cur[OffLen] # wd21_len \/ chg[OffLen] # wd21_len
                \/ org[OffLen] # wd21_len \/ sav[OffLen] # wd21_len
        THEN [text |-> ErrPageLen, byte |-> cur[OffLen]]
        ELSE IF chg[OffLed] # 255
        THEN [text |-> ErrNotChangeable, byte |-> chg[OffLed]]
        ELSE IF cur[OffMagic] # PAGE_MAGIC
        THEN [text |-> ErrMagic, byte |-> cur[OffMagic]]
        ELSE [text |-> "", byte |-> 0]

\* lines 222-240: the diagnostic and the byte printed with it, "" when the
\* four pages pass
Validate(cur, chg, org, sav) ==
    LET code     == PAGE_CODE + PS_BIT
        wd21_len == Wd21Size
    IN  IF cur[OffCode] # code \/ chg[OffCode] # code
           \/ org[OffCode] # code \/ sav[OffCode] # code
        THEN [text |-> ErrPageId, byte |-> cur[OffCode]]
        ELSE IF cur[OffLen] # wd21_len \/ chg[OffLen] # wd21_len
                \/ org[OffLen] # wd21_len \/ sav[OffLen] # wd21_len
        THEN [text |-> ErrPageLen, byte |-> cur[OffLen]]
        ELSE IF cur[OffMagic] # PAGE_MAGIC
        THEN [text |-> ErrMagic, byte |-> cur[OffMagic]]
        ELSE IF chg[OffLed] # 255
        THEN [text |-> ErrNotChangeable, byte |-> chg[OffLed]]
        ELSE [text |-> "", byte |-> 0]

\* BuildPacket without line 250: the PS bit stays as it was read
BuildPacket_KeepPS(cur, led) ==
    [i \in 1 .. PacketSize |->
        IF i <= HeaderSize THEN 0
        ELSE IF i = HeaderSize + OffLed THEN led % 256
        ELSE cur[i - HeaderSize]]

\* lines 247-253: the packet after memset, memcpy, the PS bit and the LED
BuildPacket(cur, led) ==
    [i \in 1 .. PacketSize |->
        IF i <= HeaderSize THEN 0
        ELSE IF i = HeaderSize + OffCode
        THEN BitAnd(cur[OffCode], BitAnd(cur[OffCode], 127))
        ELSE IF i = HeaderSize + OffLed THEN led % 256
        ELSE cur[i - HeaderSize]]

\* line 256 with the size of the whole packet: sizeof(packet)
packet_size_WholePacket == PacketSize

\* line 256
packet_size == HeaderSize + 2 + Wd21Size

(***************************************************************************)
(* State                                                                   *)
(***************************************************************************)
VARIABLES
    argv,        \* the arguments after argv[0]; argc is Len(argv) + 1
    pc,          \* where main is: "main", "open", "inquiry", "fetch",
                 \* "select", or "exit" once it has returned
    force, save, new,
    read_only,
    inquiry,     \* vendor and product of struct sg_simple_inquiry_resp
    current, changeable, original, saved,
    packet,
    calls,       \* the calls made into the SCSI library, in order
    err,         \* the lines written to stderr
    out,         \* the lines written to stdout
    status       \* the value main returned, -1 while it runs

vars == << argv, pc, force, save, new, read_only, inquiry, current,
           changeable, original, saved, packet, calls, err, out, status >>

locals == << force, save, new >>
pages == << current, changeable, original, saved >>

\* a call into the library: sg_cmds_open_device ("open"), sg_simple_inquiry
\* ("identify"), sg_get_mode_page_controls ("fetch") with the buffer length
\* it is given, sg_ll_mode_select10 ("submit") with the bytes it is given
\* and its save-pages flag; ok tells whether the call succeeded
Call(op, ro, len, payload, persist, ok) ==
    [op |-> op, ro |-> ro, len |-> len, payload |-> payload,
     persist |-> persist, ok |-> ok]

\* a line of output: its text, the number and the string printed in it
Line(text, num, str) == [text |-> text, num |-> num, str |-> str]

Usage == "Usage: %s DEVICE [VALUE]"
ErrUnknownValue == "Unknown value"
WarnForce == "WARNING: Skipping supported vendor/product checks!"
ErrOpen == "ERROR: Failed to open"
ErrInquiry == "ERROR: Inquiry failed"
Identity == "%s: %s %s (rev %s)"
ErrVendor == "ERROR: Unknown or unsupported vendor!"
ErrProduct == "ERROR: Unknown or unsupported product!"
SkipVendor == "MANUALLY SKIPPED UNSUPPORTED VENDOR CHECK!"
SkipProduct == "MANUALLY SKIPPED UNSUPPORTED DEVICE CHECK!"
ErrFetch == "ERROR: Get mode page failed"
ErrSelect == "ERROR: Set mode page failed"
LedReport == "LED: current=%d original=%d saved=%d"

\* return n from main
Return(n) == status' = n /\ pc' = "exit"

(***************************************************************************)
(* The steps of main                                                       *)
(***************************************************************************)
\* lines 101-161.  The long that strtol returns is as wide as the build
\* makes it.
ProcessArgs ==
    /\ pc = "main"
    /\ IF WantsHelp(argv)
       THEN /\ err' = Append(err, Line(Usage, -1, ""))
            /\ Return(1)
            /\ UNCHANGED locals
       ELSE \E a \in {ProcessArgument(argv, bits) : bits \in LongWidths} :
                  /\ force' = a.force
                  /\ save' = a.save
                  /\ new' = a.new
                  /\ IF ~a.ok
                     THEN /\ err' = Append(err, Line(ErrUnknownValue, -1, a.arg))
                          /\ Return(1)
                     ELSE /\ err' = IF a.force
                                    THEN Append(err, Line(WarnForce, -1, ""))
                                    ELSE err
                          /\ pc' = "open"
                          /\ UNCHANGED status
    /\ UNCHANGED << argv, read_only, inquiry, pages, packet, calls, out >>

\* OpenDevice without the return of line 171: the run goes on after a
\* failed open
OpenDevice_NoReturn ==
    /\ pc = "open"
    /\ read_only' = (new < 0)
    /\ \/ /\ calls' = Append(calls, Call("open", new < 0, 0, << >>, FALSE,
                                         FALSE))
          /\ err' = Append(err, Line(ErrOpen, -1, argv[1]))
          /\ pc' = "inquiry"
          /\ UNCHANGED status
       \/ /\ calls' = Append(calls, Call("open", new < 0, 0, << >>, FALSE,
                                         TRUE))
          /\ pc' = "inquiry"
          /\ UNCHANGED << err, status >>
    /\ UNCHANGED << argv, locals, inquiry, pages, packet, out >>

\* OpenDevice with read_only true whatever new is
OpenDevice_AlwaysReadOnly ==
    /\ pc = "open"
    /\ read_only' = TRUE
    /\ \/ /\ calls' = Append(calls, Call("open", TRUE, 0, << >>, FALSE,
                                         FALSE))
          /\ err' = Append(err, Line(ErrOpen, -1, argv[1]))
          /\ Return(1)
       \/ /\ calls' = Append(calls, Call("open", TRUE, 0, << >>, FALSE,
                                         TRUE))
          /\ pc' = "inquiry"
          /\ UNCHANGED << err, status >>
    /\ UNCHANGED << argv, locals, inquiry, pages, packet, out >>

\* lines 163-172
OpenDevice ==
    /\ pc = "open"
    /\ read_only' = (new < 0)
    /\ \/ /\ calls' = Append(calls, Call("open", new < 0, 0, << >>, FALSE,
                                         FALSE))
          /\ err' = Append(err, Line(ErrOpen, -1, argv[1]))
          /\ Return(1)
       \/ /\ calls' = Append(calls, Call("open", new < 0, 0, << >>, FALSE,
                                         TRUE))
          /\ pc' = "inquiry"
          /\ UNCHANGED << err, status >>
    /\ UNCHANGED << argv, locals, inquiry, pages, packet, out >>

\* lines 176-210: the inquiry, the identity line and the supported-device
\* check
Inquire(Answers) ==
    /\ pc = "inquiry"
    /\ \/ /\ calls' = Append(calls, Call("identify", read_only, 0, << >>,
                                         FALSE, FALSE))
          /\ err' = Append(err, Line(ErrInquiry, -1, argv[1]))
          /\ Return(1)
          /\ UNCHANGED inquiry
       \/ \E inq \in Answers :
            LET id  == Line(Identity, -1, inq.vendor \o " " \o inq.product)
                chk == CheckSupported(inq)
            IN  /\ calls' = Append(calls, Call("identify", read_only, 0,
                                               << >>, FALSE, TRUE))
                /\ inquiry' = inq
                /\ IF chk = "ok"
                   THEN /\ err' = Append(err, id)
                        /\ pc' = "fetch"
                        /\ UNCHANGED status
                   ELSE IF ~force
                   THEN /\ err' = err \o << id,
                               Line(IF chk = "vendor" THEN ErrVendor
                                    ELSE ErrProduct, -1, argv[1]) >>
                        /\ Return(1)
                   ELSE /\ err' = err \o << id,
                               Line(IF chk = "vendor" THEN SkipVendor
                                    ELSE SkipProduct, -1, "") >>
                        /\ pc' = "fetch"
                        /\ UNCHANGED status
    /\ UNCHANGED << argv, locals, read_only, pages, packet, out >>

\* Report with the led byte of the changeable page in the place of the
\* original's
Report_ChangeableMask(cur, chg, org, sav) ==
    << LedReport, cur[OffLed], chg[OffLed], sav[OffLed] >>

\* line 243: the line printf writes to stdout
Report(cur, chg, org, sav) ==
    << LedReport, cur[OffLed], org[OffLed], sav[OffLed] >>

\* lines 212-245 and 265: MODE SENSE for the four page controls, the
\* validation, the LED report, and the return when no value was asked for
FetchModePage(Answers) ==
    /\ pc = "fetch"
    /\ \/ /\ calls' = Append(calls, Call("fetch", read_only, PageSize, << >>,
                                         FALSE, FALSE))
          /\ err' = Append(err, Line(ErrFetch, -1, argv[1]))
          /\ Return(1)
          /\ UNCHANGED << pages, out >>
       \/ \E q \in Answers :
            LET v == Validate(q[1], q[2], q[3], q[4])
            IN  /\ calls' = Append(calls, Call("fetch", read_only, PageSize,
                                               << >>, FALSE, TRUE))
                /\ current' = q[1]
                /\ changeable' = q[2]
                /\ original' = q[3]
                /\ saved' = q[4]
                /\ IF v.text # ""
                   THEN /\ err' = Append(err, Line(v.text, v.byte, argv[1]))
                        /\ Return(1)
                        /\ UNCHANGED out
                   ELSE /\ out' = Append(out,
                                         Report(q[1], q[2], q[3], q[4]))
                        /\ UNCHANGED err
                        /\ IF new >= 0
                           THEN pc' = "select" /\ UNCHANGED status
                           ELSE Return(0)
    /\ UNCHANGED << argv, locals, read_only, inquiry, packet >>

\* lines 245-265: the parameter list and MODE SELECT
ModeSelect ==
    /\ pc = "select"
    /\ packet' = BuildPacket(current, new)
    /\ \/ /\ calls' = Append(calls, Call("submit", read_only, packet_size,
                                SubSeq(packet', 1, packet_size), save, FALSE))
          /\ err' = Append(err, Line(ErrSelect, -1, argv[1]))
          /\ Return(1)
       \/ /\ calls' = Append(calls, Call("submit", read_only, packet_size,
                                SubSeq(packet', 1, packet_size), save, TRUE))
          /\ Return(0)
          /\ UNCHANGED err
    /\ UNCHANGED << argv, locals, read_only, inquiry, pages, out >>

(***************************************************************************)
(* The inputs of a run: the command line and what the device answers       *)
(***************************************************************************)
\* longest generated value string
MaxValLen == 3

ValChars == {"0", "2", "5", "9", "x", "f", "-"}

RECURSIVE StringsUpTo(_)
\* every string over ValChars of at most n characters
StringsUpTo(n) ==
    IF n = 0 THEN {""}
    ELSE LET S == StringsUpTo(n - 1)
         IN  S \cup {s \o c : s \in S, c \in ValChars}

\* values of interest that ValChars does not spell
LiteralValues ==
    { "on", "off", "ON", "Off", "o", "onn", "offf", "abc", "1e2",
      "10", "010", "08", "0xFF", "0XfF", "0x100", "256", "0377", "0400",
      " 5", "5 ", "+5", "+", "-1", "0x",
      "2147483648", "4294967295", "4294967296", "4294967551",
      "4294967552", "0x100000000", "0x1000000ff", "-4294967296",
      "-4294967295", "9223372036854775807", "9223372036854775808",
      "-9223372036854775808", "-9223372036854775809",
      "18446744073709551616", "FORCEGET" }

ValueStrings == StringsUpTo(MaxValLen) \cup LiteralValues

Prefixes ==
    { "", "FORCESET:", "save:", "FORCESET:save:", "SAVE:", "FORCESET:Save:",
      "save:FORCESET:", "forceset:" }

Devices == {"/dev/sdb"}

\* command lines with every prefix before every value string
ArgvRich ==
    {<< >>}
    \cup {<< d >> : d \in Devices \cup HelpFlags}
    \cup {<< d, p \o v >> : d \in Devices, p \in Prefixes, v \in ValueStrings}
    \cup {<< d, v >> : d \in Devices, v \in {"forceget", "FORCEGET "}}
    \cup {<< h, v >> : h \in HelpFlags, v \in {"on", "FORCEGET", "bogus"}}
    \cup {<< d, "on", "extra" >> : d \in Devices}

\* a few command lines, one of each kind
ArgvFew ==
    {<< d >> : d \in Devices}
    \cup {<< d, v >> : d \in Devices,
                       v \in {"FORCEGET", "on", "save:off", "FORCESET:5",
                              "FORCESET:save:0x10", "bogus"}}

\* inquiry answers: the first and the last product of the table, one that
\* is not in it, under the vendor of the table and under another one
Inquiries ==
    [vendor : {"WD      ", "Seagate "},
     product : {"My Passport 259D", "My Passport 25E2", "My Passport 0748"}]

\* the four pages of a genuine device whose LED shows led
Genuine(led) ==
    << MkPage(161, 10, 48, 5, led, 0, 238),
       MkPage(161, 10, 0, 15, 255, 0, 0),
       MkPage(161, 10, 48, 0, 0, 0, 0),
       MkPage(161, 10, 48, 5, 10, 0, 0) >>

\* a few MODE SENSE answers: genuine ones, one failing each rule, and one
\* whose saved page was left zero-filled
FewPages ==
    { Genuine(0), Genuine(10), Genuine(255),
      [Genuine(10) EXCEPT ![2] = MkPage(161, 10, 0, 15, 15, 0, 0)],
      [Genuine(10) EXCEPT ![1] = MkPage(161, 10, 49, 5, 10, 0, 238)],
      [Genuine(10) EXCEPT ![3] = MkPage(161, 11, 48, 0, 0, 0, 0)],
      [Genuine(10) EXCEPT ![1] = MkPage(33, 10, 48, 5, 10, 0, 238)],
      [Genuine(10) EXCEPT ![4] = ZeroPage] }

\* MODE SENSE answers in which the bytes the validation reads vary in each
\* page independently
ManyPages ==
    { << MkPage(c1, l1, m, 5, led, 0, 238),
         MkPage(c2, l2, 0, 15, mask, 0, 0),
         MkPage(c3, l3, 48, 0, 0, 0, 0),
         MkPage(c4, l4, 48, 5, 10, 0, 0) >> :
        c1 \in {161, 33, 162}, l1 \in {10, 11}, m \in {48, 49},
        led \in {0, 10},
        c2 \in {161, 33}, l2 \in {10, 0}, mask \in {255, 15},
        c3 \in {161, 0}, l3 \in {10, 0},
        c4 \in {161, 33}, l4 \in {10, 11} }

(***************************************************************************)
(* Specifications                                                          *)
(***************************************************************************)
\* main has been entered with the command line args
Start(args) ==
    /\ argv = args
    /\ pc = "main"
    /\ force = FALSE
    /\ save = FALSE
    /\ new = -1
    /\ read_only = FALSE
    /\ inquiry = [vendor |-> "", product |-> ""]
    /\ current = ZeroPage
    /\ changeable = ZeroPage
    /\ original = ZeroPage
    /\ saved = ZeroPage
    /\ packet = [i \in 1 .. PacketSize |-> 0]
    /\ calls = << >>
    /\ err = << >>
    /\ out = << >>
    /\ status = -1

\* every command line, a few device answers
Init == \E args \in ArgvRich : Start(args)

Next ==
    \/ ProcessArgs
    \/ OpenDevice
    \/ Inquire(Inquiries)
    \/ FetchModePage(FewPages)
    \/ ModeSelect

Spec == Init /\ [][Next]_vars

\* a few command lines, every device answer
InitDevice == \E args \in ArgvFew : Start(args)

NextDevice ==
    \/ ProcessArgs
    \/ OpenDevice
    \/ Inquire(Inquiries)
    \/ FetchModePage(ManyPages)
    \/ ModeSelect

SpecDevice == InitDevice /\ [][NextDevice]_vars

RECURSIVE DecStr(_)
\* n as a decimal numeral
DecStr(n) ==
    IF n < 10 THEN CharAt(DigitChars, n + 1)
    ELSE DecStr(n \div 10) \o CharAt(DigitChars, (n % 10) + 1)

\* genuine answers in which the bytes of the current page that the
\* validation does not read vary
BytePages ==
    { [Genuine(led) EXCEPT ![1] = MkPage(161, 10, 48, u, led, z, pad)] :
        led \in {0, 10, 255}, u \in {5, 255}, z \in {0, 7}, pad \in {0, 238} }
    \cup { [Genuine(10) EXCEPT ![2] = MkPage(161, 10, 0, 15, 15, 0, 0)] }

\* every byte value asked for, with and without save:
InitBytes ==
    \E d \in Devices, p \in {"", "save:"}, n \in Byte :
        Start(<< d, p \o DecStr(n) >>)

NextBytes ==
    \/ ProcessArgs
    \/ OpenDevice
    \/ Inquire(Inquiries)
    \/ FetchModePage(BytePages)
    \/ ModeSelect

SpecBytes == InitBytes /\ [][NextBytes]_vars

(***************************************************************************)
(* What the properties speak of                                            *)
(***************************************************************************)
\* a second argument was given and the run is not a request for help
HasArg == Len(argv) = 2 /\ argv[1] \notin HelpFlags

\* s without the prefix p when it starts with it
WithoutPrefix(s, p) ==
    IF Len(s) >= Len(p) /\ SubSeq(s, 1, Len(p)) = p
    THEN SubSeq(s, Len(p) + 1, Len(s))
    ELSE s

\* save: in every letter case
SaveSpellings ==
    { a \o b \o c \o d \o ":" :
        a \in {"s", "S"}, b \in {"a", "A"}, c \in {"v", "V"},
        d \in {"e", "E"} }

\* the override tokens
Override ==
    HasArg /\ (argv[2] = "FORCEGET" \/ WithoutPrefix(argv[2], "FORCESET:") # argv[2])

\* a new LED value was asked for
AskedValue == HasArg /\ argv[2] # "FORCEGET"

\* the second argument after FORCESET:
AfterForce == WithoutPrefix(argv[2], "FORCESET:")

\* the value carries the save: prefix, in whatever letter case
CarriesSave ==
    Len(AfterForce) >= 5 /\ SubSeq(AfterForce, 1, 5) \in SaveSpellings

\* the requested value with the optional FORCESET: and save: removed
RequestedText ==
    IF CarriesSave THEN SubSeq(AfterForce, 6, Len(AfterForce)) ELSE AfterForce

RECURSIVE AllIn(_, _)
\* every character of s is one of chars
AllIn(s, chars) ==
    s = "" \/ (IndexIn(Head(s), chars, 1) # 0 /\ AllIn(Tail(s), chars))

RECURSIVE NoLeadingZeros(_)
NoLeadingZeros(s) ==
    IF Len(s) > 1 /\ Head(s) = "0" THEN NoLeadingZeros(Tail(s)) ELSE s

\* the pages the validation looks at
Variants == << current, changeable, original, saved >>

\* the four rules of the validation, as the specification states them
PageIdOk(pg) == pg[OffCode] % 128 = 33 /\ pg[OffCode] \div 128 = 1
LengthOk(pg) == pg[OffLen] = 10
AllIdsOk == \A k \in 1 .. 4 : PageIdOk(Variants[k])
AllLengthsOk == \A k \in 1 .. 4 : LengthOk(Variants[k])
MagicOk == current[OffMagic] = 48
LedChangeable == changeable[OffLed] = 255

CallsOf(op) == {i \in 1 .. Len(calls) : calls[i].op = op}
Submitted == CallsOf("submit") # {}
FetchSucceeded == \E i \in CallsOf("fetch") : calls[i].ok
LastErr(text) == err # << >> /\ err[Len(err)].text = text
Failed == pc = "exit" /\ status = 1

\* the value of the hexadecimal digit c
HexDigit(c) ==
    LET i == IndexIn(c, "0123456789abcdef", 1)
    IN  IF i # 0 THEN i - 1 ELSE IndexIn(c, "0123456789ABCDEF", 1) - 1

RECURSIVE NumberIn(_, _, _)
\* the number that the digits s denote in the given base, after acc
NumberIn(s, base, acc) ==
    IF s = "" THEN acc
    ELSE NumberIn(Tail(s), base, acc * base + HexDigit(Head(s)))

\* s is a decimal numeral
IsDecimal(s) == s # "" /\ AllIn(s, "0123456789")

\* s is a decimal numeral that does not start with a superfluous 0
IsPlainDecimal(s) == IsDecimal(s) /\ (s = "0" \/ Head(s) # "0")

\* s is a hexadecimal numeral with the 0x prefix
IsHex(s) ==
    /\ Len(s) > 2
    /\ SubSeq(s, 1, 2) \in {"0x", "0X"}
    /\ AllIn(SubSeq(s, 3, Len(s)), "0123456789abcdefABCDEF")

\* the digits denote a number in [0, 255]: at most three digits count
InByteRange(digits, base) ==
    LET t == NoLeadingZeros(digits)
    IN  Len(t) <= 3 /\ NumberIn(t, base, 0) <= 255

RECURSIVE AfterSpaces(_)
AfterSpaces(s) ==
    IF s # "" /\ Head(s) \in {" ", "\t"} THEN AfterSpaces(Tail(s)) ELSE s

\* the numbers in [0, 255] that the unsigned numeral t can be read as:
\* decimal, octal when it starts with 0, hexadecimal after 0x
Readings(t) ==
    (IF IsDecimal(t) /\ InByteRange(t, 10)
     THEN {NumberIn(NoLeadingZeros(t), 10, 0)} ELSE {})
    \cup (IF Len(t) > 1 /\ Head(t) = "0" /\ AllIn(t, "01234567")
             /\ InByteRange(t, 8)
          THEN {NumberIn(NoLeadingZeros(t), 8, 0)} ELSE {})
    \cup (IF IsHex(t) /\ InByteRange(SubSeq(t, 3, Len(t)), 16)
          THEN {NumberIn(NoLeadingZeros(SubSeq(t, 3, Len(t))), 16, 0)}
          ELSE {})

\* s is a numeral that denotes an integer in [0, 255], read as liberally as
\* can be: blanks and a sign may precede it, and it may be decimal, octal
\* or hexadecimal
DenotesByte(s) ==
    LET u == AfterSpaces(s)
    IN  IF u # "" /\ Head(u) = "-" THEN 0 \in Readings(Tail(u))
        ELSE IF u # "" /\ Head(u) = "+" THEN Readings(Tail(u)) # {}
        ELSE Readings(u) # {}

\* the run ended on the rejection of the value, before any call
Rejected == Failed /\ LastErr(ErrUnknownValue) /\ calls = << >>

(***************************************************************************)
(* Properties                                                              *)
(***************************************************************************)
\* C1: when the fetch succeeded, the page-id, page-length and magic rules
\* pass and changeable.led is not 0xFF, the run has ended with exit status 1
\* on the "LED bits don't appear changeable" error and MODE SELECT was not
\* called, whatever value was asked for.
C1_LedNotChangeable ==
    (FetchSucceeded /\ AllIdsOk /\ AllLengthsOk /\ MagicOk /\ ~LedChangeable)
        => /\ Failed
           /\ LastErr(ErrNotChangeable)
           /\ out = << >>
           /\ ~Submitted

\* C1 happens: a forced, saved write was asked for and the mask is not 0xFF
C1_Witness ==
    /\ HasArg
    /\ argv[2] = "FORCESET:save:0x10"
    /\ FetchSucceeded /\ AllIdsOk /\ AllLengthsOk /\ MagicOk /\ ~LedChangeable
    /\ Failed

\* C2: the bytes given to MODE SELECT, after the 8-byte header, are a page
\* whose led byte is the requested value, whose code byte has the PS bit
\* clear and the page code of the current page, and whose other bytes are
\* those of the current page.
C2_RoundTrip ==
    \A i \in CallsOf("submit") :
        LET page == SubSeq(calls[i].payload, 8 + 1, Len(calls[i].payload))
        IN  /\ Len(page) >= OffLed
            /\ page[OffLed] = NumberIn(RequestedText, 10, 0)
            /\ page[OffCode] < 128
            /\ page[OffCode] = current[OffCode] % 128
            /\ \A k \in 1 .. Len(page) :
                 k \notin {OffCode, OffLed} => page[k] = current[k]

\* C2 happens: a value that is neither off nor on is written over a current
\* page whose flags, reserved and padding bytes are not zero
C2_Witness ==
    /\ Submitted
    /\ RequestedText = "171"
    /\ current[OffUnknown1] = 255
    /\ current[4] = 7
    /\ current[PageSize] = 238
    /\ current[OffLed] = 10

\* C3: a requested value that is neither off nor on nor a numeral denoting
\* an integer in [0, 255] is rejected with "Unknown value" and exit status
\* 1, and no library call is made.
C3_InvalidValueRejected ==
    (AskedValue /\ pc # "main"
        /\ RequestedText \notin {"off", "on"} /\ ~DenotesByte(RequestedText))
        => Rejected

\* the number the claim gives the requested text, -1 when it gives none;
\* decimal(s) tells which digit strings count as decimal numerals
Denoted(v, decimal(_)) ==
    IF v = "off" THEN 0
    ELSE IF v = "on" THEN 255
    ELSE IF decimal(v) /\ InByteRange(v, 10)
    THEN NumberIn(NoLeadingZeros(v), 10, 0)
    ELSE IF IsHex(v) /\ InByteRange(SubSeq(v, 3, Len(v)), 16)
    THEN NumberIn(NoLeadingZeros(SubSeq(v, 3, Len(v))), 16, 0)
    ELSE -1

\* the value n was accepted, is in "new" and is the led byte of every
\* parameter list given to MODE SELECT
ParsedAs(n) ==
    /\ ~Rejected
    /\ new = n
    /\ \A i \in CallsOf("submit") : calls[i].payload[8 + OffLed] = n

\* C4 as stated: off is 0, on is 255, every decimal or 0x-prefixed
\* hexadecimal numeral denoting n in [0, 255] is n, and the led byte written
\* is that value.
C4_EveryNumeral ==
    (AskedValue /\ pc # "main" /\ Denoted(RequestedText, IsDecimal) >= 0)
        => ParsedAs(Denoted(RequestedText, IsDecimal))

\* C4: off is 0, on is 255, every decimal numeral without a superfluous
\* leading 0 and every 0x-prefixed hexadecimal numeral denoting n in
\* [0, 255] is n, and the led byte written is that value.
C4_PlainNumeral ==
    (AskedValue /\ pc # "main" /\ Denoted(RequestedText, IsPlainDecimal) >= 0)
        => ParsedAs(Denoted(RequestedText, IsPlainDecimal))

\* C4 happens: a hexadecimal numeral was written to the device
C4_Witness ==
    /\ HasArg
    /\ argv[2] = "save:0xFF"
    /\ Submitted
    /\ new = 255

\* no new value was supplied
NoValue == Len(argv) = 1 \/ (Len(argv) = 2 /\ argv[2] = "FORCEGET")

\* C5: with no second argument, or with FORCEGET, MODE SELECT is never
\* called; when the fetch succeeded and the four rules pass, the run has
\* ended with exit status 0 after reporting the LED bytes.
C5_ReadOnlyQuery ==
    NoValue =>
        /\ ~Submitted
        /\ (FetchSucceeded /\ AllIdsOk /\ AllLengthsOk /\ MagicOk
              /\ LedChangeable)
              => /\ pc = "exit"
                 /\ status = 0
                 /\ out = << << LedReport, current[OffLed],
                                original[OffLed], saved[OffLed] >> >>

\* C5 happens: FORCEGET on a device that is not in the table
C5_Witness ==
    /\ Len(argv) = 2
    /\ argv[2] = "FORCEGET"
    /\ inquiry.vendor = "Seagate "
    /\ status = 0
    /\ out # << >>

\* the run made exactly one MODE SELECT call, with led byte n, the PS bit
\* clear and the save-pages flag persist
SubmittedOnce(n, persist) ==
    /\ Cardinality(CallsOf("submit")) = 1
    /\ \A i \in CallsOf("submit") :
         /\ calls[i].payload[8 + OffLed] = n
         /\ calls[i].payload[8 + OffCode] < 128
         /\ calls[i].persist = persist

\* a run that asked for a value, on a device that passed the validation,
\* has ended
WroteValue ==
    /\ AskedValue
    /\ FetchSucceeded /\ AllIdsOk /\ AllLengthsOk /\ MagicOk /\ LedChangeable
    /\ pc = "exit"

\* C6: when a value V was asked for and the device passed the validation,
\* exactly one MODE SELECT call is made, with led byte V, the PS bit clear,
\* and the save-pages flag set exactly when the value carried the save:
\* prefix (which the program matches in any letter case).
C6_SubmitOnce == WroteValue => SubmittedOnce(new, CarriesSave)

\* C6 happens: save:off was written
C6_Witness ==
    /\ HasArg
    /\ argv[2] = "save:off"
    /\ WroteValue
    /\ status = 0

\* the device is in the table of supported devices
InTable(inq) ==
    \E v \in 1 .. Len(supported) :
        /\ supported[v].vendor = inq.vendor
        /\ \E k \in 1 .. Len(supported[v].products) :
             supported[v].products[k] = inq.product

IdentifySucceeded == \E i \in CallsOf("identify") : calls[i].ok

\* C7: without an override token, when the inquiry answers with a vendor
\* that is not in the table, or a product that is not in the vendor's list,
\* the run has ended with exit status 1 on the unsupported vendor or
\* product error, and neither MODE SENSE nor MODE SELECT was called.
C7_UnsupportedDevice ==
    (~Override /\ IdentifySucceeded /\ ~InTable(inquiry))
        => /\ Failed
           /\ (LastErr(ErrVendor) \/ LastErr(ErrProduct))
           /\ CallsOf("fetch") = {}
           /\ ~Submitted

\* C7 happens: a write to an unknown product of the known vendor
C7_Witness ==
    /\ HasArg
    /\ argv[2] = "on"
    /\ IdentifySucceeded
    /\ inquiry = [vendor |-> "WD      ", product |-> "My Passport 0748"]
    /\ Failed

\* under override every failed call ends the run at once with exit status
\* 1, a failed rule of the validation ends it with exit status 1 before the
\* report, and MODE SELECT is called only after the four rules passed
C8_OtherErrorsFatal ==
    Override =>
        /\ \A i \in 1 .. Len(calls) :
             ~calls[i].ok => (Failed /\ i = Len(calls))
        /\ (FetchSucceeded
              /\ ~(AllIdsOk /\ AllLengthsOk /\ MagicOk /\ LedChangeable))
              => (Failed /\ out = << >>)
        /\ Submitted
              => (AllIdsOk /\ AllLengthsOk /\ MagicOk /\ LedChangeable)
        /\ LastErr(ErrUnknownValue) => Rejected

\* C8: under override, open, inquiry, fetch and submit failures, the four
\* validation failures and an invalid requested value all end the run with
\* exit status 1, and MODE SELECT is called only after the four rules
\* passed.
C8_OverrideKeepsErrorsFatal ==
    /\ C8_OtherErrorsFatal
    /\ (Override /\ AskedValue /\ pc # "main"
          /\ RequestedText \notin {"off", "on"}
          /\ ~DenotesByte(RequestedText))
          => Failed

\* C9: when the fetch succeeded and the code byte of any of the four pages
\* is not 0xA1 (page code 0x21 with the PS bit), the run has ended with exit
\* status 1 on the page-id error, with no report and no MODE SELECT.
C9_PageId ==
    (FetchSucceeded /\ ~AllIdsOk)
        => /\ Failed
           /\ LastErr(ErrPageId)
           /\ out = << >>
           /\ ~Submitted

\* C9 happens: the saved page alone lacks the PS bit
C9_Witness ==
    /\ FetchSucceeded
    /\ PageIdOk(current) /\ PageIdOk(changeable) /\ PageIdOk(original)
    /\ saved[OffCode] = 33
    /\ Failed

\* C10: when the fetch succeeded, the page-id rule passes and the length
\* byte of any of the four pages is not 10, the run has ended with exit
\* status 1 on the page-length error, with no report and no MODE SELECT.
C10_PageLength ==
    (FetchSucceeded /\ AllIdsOk /\ ~AllLengthsOk)
        => /\ Failed
           /\ LastErr(ErrPageLen)
           /\ out = << >>
           /\ ~Submitted

\* C10 happens: the original page alone has another length
C10_Witness ==
    /\ FetchSucceeded /\ AllIdsOk
    /\ LengthOk(current) /\ LengthOk(changeable) /\ LengthOk(saved)
    /\ ~LengthOk(original)
    /\ Failed

\* C11 as it is stated: when the fetch succeeded and the magic byte of the
\* current page is not 0x30, the run has ended with exit status 1 on the
\* magic error, whatever the code and length bytes of the four pages are.
C11_MagicWhateverElse ==
    (FetchSucceeded /\ ~MagicOk) => (Failed /\ LastErr(ErrMagic))

\* C11: when the fetch succeeded, the page-id and page-length rules pass for
\* the four pages and the magic byte of the current page is not 0x30, the
\* run has ended with exit status 1 on the magic error, with no report and
\* no MODE SELECT, whatever the other bytes of the four pages are.
C11_MagicAfterIdAndLength ==
    (FetchSucceeded /\ AllIdsOk /\ AllLengthsOk /\ ~MagicOk)
        => /\ Failed
           /\ LastErr(ErrMagic)
           /\ out = << >>
           /\ ~Submitted

\* C11 happens: the magic is wrong and the LED mask is not 0xff either
C11_Witness ==
    /\ FetchSucceeded /\ AllIdsOk /\ AllLengthsOk
    /\ current[OffMagic] = 49
    /\ ~LedChangeable
    /\ Failed

\* C12: every buffer handed to MODE SELECT is 8 + 2 + 10 = 20 bytes long:
\* eight zero bytes of header, then the code byte of the current page (its
\* low seven bits), its length byte and the ten bytes of its vendor payload
\* with the led byte replaced by the requested value; the bytes of the page
\* record after the vendor payload are not in it.
C12_SubmitBuffer ==
    \A i \in CallsOf("submit") :
        LET b == calls[i].payload
        IN  /\ calls[i].len = 8 + 2 + 10
            /\ Len(b) = 20
            /\ \A k \in 1 .. 8 : b[k] = 0
            /\ b[8 + 1] = current[1] % 128
            /\ b[8 + 2] = current[2]
            /\ \A k \in 3 .. 12 :
                 b[8 + k] = IF k = OffLed THEN new ELSE current[k]

\* C12 happens: a page whose record carries non-zero bytes after the vendor
\* payload, and non-zero reserved bytes in it, was written back
C12_Witness ==
    /\ Submitted
    /\ \A k \in 13 .. 34 : current[k] = 238
    /\ current[4] = 7
    /\ current[OffLed] = 10
    /\ new = 238
    /\ status = 0

\* the four rules of the validation pass
RulesPass == AllIdsOk /\ AllLengthsOk /\ MagicOk /\ LedChangeable

\* the run completed: a query whose pages passed the validation, or a write
\* whose MODE SELECT succeeded
Completed ==
    \/ NoValue /\ FetchSucceeded /\ RulesPass
    \/ \E i \in CallsOf("submit") : calls[i].ok

\* the diagnostic of a failed call
ErrOf(op) ==
    IF op = "open" THEN ErrOpen
    ELSE IF op = "identify" THEN ErrInquiry
    ELSE IF op = "fetch" THEN ErrFetch
    ELSE ErrSelect

\* the exit status is 0 exactly when the run completed; a wrong number of
\* arguments or a request for help, a value the program refused, a failed
\* call, an unsupported device without override and a failed rule of the
\* validation have each ended the run with exit status 1 and their
\* diagnostic as the last line of stderr
C13_ErrorsExitOne ==
    /\ (status = 0) <=> Completed
    /\ (pc = "exit") <=> (status \in {0, 1})
    /\ status = 1 => err # << >>
    /\ (pc # "main" /\ (Len(argv) \notin {1, 2} \/ argv[1] \in HelpFlags))
          => (Failed /\ LastErr(Usage))
    /\ LastErr(ErrUnknownValue) => Rejected
    /\ \A i \in 1 .. Len(calls) :
         ~calls[i].ok => (Failed /\ LastErr(ErrOf(calls[i].op)))
    /\ (~Override /\ IdentifySucceeded /\ ~InTable(inquiry))
          => (Failed /\ (LastErr(ErrVendor) \/ LastErr(ErrProduct)))
    /\ (FetchSucceeded /\ ~RulesPass)
          => /\ Failed
             /\ \/ LastErr(ErrPageId) \/ LastErr(ErrPageLen)
                \/ LastErr(ErrMagic) \/ LastErr(ErrNotChangeable)

\* C13: the exit status is 0 exactly when the run completed (a query whose
\* pages passed the validation, or a write whose MODE SELECT succeeded);
\* every argument error, an invalid requested value included, every failed
\* call, an unsupported device and every failed rule of the validation give
\* exit status 1 and a diagnostic line on stderr.
C13_ExitStatus ==
    /\ C13_ErrorsExitOne
    /\ (AskedValue /\ pc # "main"
          /\ RequestedText \notin {"off", "on"}
          /\ ~DenotesByte(RequestedText))
          => (Failed /\ LastErr(ErrUnknownValue))

\* the number printed in the last line of stderr
LastNum == err[Len(err)].num

\* C14: when the run ended on the page-id error, the byte printed with it is
\* the code byte of a page whose code byte is not 0xA1, and when it ended on
\* the page-length error, the byte printed is the length byte of a page
\* whose length byte is not 10, whichever of the four pages are wrong.
C14_OffendingByte ==
    /\ (Failed /\ LastErr(ErrPageId))
          => \E k \in 1 .. 4 :
                ~PageIdOk(Variants[k]) /\ LastNum = Variants[k][OffCode]
    /\ (Failed /\ LastErr(ErrPageLen))
          => \E k \in 1 .. 4 :
                ~LengthOk(Variants[k]) /\ LastNum = Variants[k][OffLen]

ValidationErrs == {ErrPageId, ErrPageLen, ErrMagic, ErrNotChangeable}

\* the error of the first rule that fails, in the order page-id,
\* page-length, magic, LED-changeable; "" when the four pass
FirstFailing ==
    IF ~AllIdsOk THEN ErrPageId
    ELSE IF ~AllLengthsOk THEN ErrPageLen
    ELSE IF ~MagicOk THEN ErrMagic
    ELSE IF ~LedChangeable THEN ErrNotChangeable
    ELSE ""

\* the lines of stderr that carry a validation error
Raised == {i \in 1 .. Len(err) : err[i].text \in ValidationErrs}

\* C15: no validation error is written before the fetch succeeded or when
\* the four rules pass; when a rule fails, exactly one validation error has
\* been written, that of the first failing rule in the order page-id,
\* page-length, magic, LED-changeable, it is the last line of stderr, and
\* the run has ended with exit status 1 without a report and without MODE
\* SELECT.
C15_FirstFailingRule ==
    IF FetchSucceeded /\ FirstFailing # ""
    THEN /\ Raised = {Len(err)}
         /\ LastErr(FirstFailing)
         /\ Failed
         /\ out = << >>
         /\ ~Submitted
    ELSE Raised = {}

\* C15 happens: the four rules fail at once on a run that asked for a write
C15_Witness ==
    /\ AskedValue
    /\ FetchSucceeded
    /\ ~AllIdsOk /\ ~AllLengthsOk /\ ~MagicOk /\ ~LedChangeable
    /\ Failed

\* the calls of a run in the order the program makes them
CallOrder == << "open", "identify", "fetch", "submit" >>

\* the texts that report an error
ErrorTexts ==
    { Usage, ErrUnknownValue, ErrOpen, ErrInquiry, ErrVendor, ErrProduct,
      ErrFetch, ErrSelect } \cup ValidationErrs

\* an error has been reported
ErrorOccurred == \E i \in 1 .. Len(err) : err[i].text \in ErrorTexts

\* a step of the run: it starts where no error has been reported and main
\* has not returned; when it makes a call, it makes one, the next of
\* CallOrder after the calls made so far, all of which succeeded; when it
\* reports an error, main returns 1 with it
CallStep ==
    /\ ~ErrorOccurred
    /\ status = -1
    /\ \/ calls' = calls
       \/ /\ Len(calls) < Len(CallOrder)
          /\ \A i \in 1 .. Len(calls) : calls[i].ok
          /\ \E c \in {calls'[Len(calls')]} :
                /\ c.op = CallOrder[Len(calls) + 1]
                /\ calls' = Append(calls, c)
    /\ ErrorOccurred' => (status' = 1 /\ pc' = "exit")

\* C16: every step of a run starts from a state without an error; a step
\* makes at most one library call, the one that follows the calls already
\* made in the order open, identify, fetch, submit, and only when each of
\* those succeeded; a step that raises an error ends the run, so that no
\* call is repeated and none follows an error.
C16_CallOrder == [][CallStep]_vars

\* C16 happens: the four calls were made in order and the last one failed
C16_Witness ==
    /\ Len(calls) = 4
    /\ \A i \in 1 .. 4 : calls[i].op = CallOrder[i]
    /\ \A i \in 1 .. 3 : calls[i].ok
    /\ ~calls[4].ok
    /\ Failed

\* the report of the led bytes of the current, original and saved pages
LedLine == << LedReport, current[OffLed], original[OffLed], saved[OffLed] >>

\* stdout holds the report, once, exactly when the fetched pages passed the
\* validation, and then the run has not failed unless MODE SELECT did
ReportedOnce ==
    IF FetchSucceeded /\ RulesPass
    THEN /\ out = << LedLine >>
         /\ status = 1 => (Submitted /\ LastErr(ErrSelect))
    ELSE out = << >>

\* a step that calls MODE SELECT starts with the report on stdout and
\* writes nothing to it
ReportBeforeSubmit ==
    (~Submitted /\ Submitted') => (out = << LedLine >> /\ out' = out)

\* C17: whenever the fetched pages pass the validation, stdout holds the
\* LED report exactly once, with the led bytes of the current, original and
\* saved pages, whether or not a value was asked for and whatever the led
\* bytes are; it is there before MODE SELECT is called, and the run does not
\* fail on it.
C17_LedReport == [] ReportedOnce /\ [][ReportBeforeSubmit]_vars

\* C17 happens: a led byte that is neither 0x00 nor 0xff was reported along
\* with an original led byte that differs from the changeable mask, before
\* a write
C17_Witness ==
    /\ AskedValue
    /\ Submitted
    /\ out = << << LedReport, 10, 0, 10 >> >>
    /\ changeable[OffLed] = 255
    /\ pc = "exit"

\* each of the four page records is n bytes long, and n is the buffer
\* length every MODE SENSE call was given
RecordSize(n) ==
    /\ \A k \in 1 .. 4 : DOMAIN Variants[k] = 1 .. n
    /\ \A i \in CallsOf("fetch") : calls[i].len = n

\* C18 as it is stated: the page record is 32 bytes long (1 + 1 + 30) and
\* the buffer length given to MODE SENSE for each page is 32.
C18_Record32 == RecordSize(1 + 1 + 30)

\* C18: the page record is 34 bytes long, a code byte, a length byte and a
\* payload of 32 bytes, and the buffer length given to MODE SENSE for each
\* of the four pages is 34.
C18_Record34 == RecordSize(1 + 1 + 32)

\* C18 happens: MODE SENSE was called and the device filled the record of
\* the current page up to its last byte
C18_Witness ==
    /\ FetchSucceeded
    /\ \A i \in CallsOf("fetch") : calls[i].len = 34
    /\ current[34] = 238
    /\ pc = "exit"

\* C19: the device is opened read-only exactly when no value was asked for
\* (no second argument, or FORCEGET); the later calls of the run are made
\* on the device as it was opened, so that MODE SELECT is only ever called
\* on a device opened read-write.
C19_ReadOnlyIffNoValue ==
    /\ \A i \in CallsOf("open") : calls[i].ro <=> NoValue
    /\ \A i \in 1 .. Len(calls) : calls[i].ro = calls[1].ro
    /\ Submitted => (~calls[1].ro /\ AskedValue)

\* C19 happens: a FORCEGET query opened the device read-only and completed
C19_Witness ==
    /\ HasArg
    /\ argv[2] = "FORCEGET"
    /\ Len(calls) = 3
    /\ calls[1].op = "open" /\ calls[1].ro
    /\ status = 0

====
